---- MODULE Spec2Model ----
(***************************************************************************)
(* Model of abi_stable's erased-object container DynTrait                  *)
(* (src/abi_stable/src/erased_types/dyn_trait.rs) together with the parts  *)
(* of RBox (src/abi_stable/src/std_types/boxed.rs) that its Drop reaches.  *)
(*                                                                         *)
(* A container is a record                                                 *)
(*   object  : the erased pointer P (its kind and the address it holds)    *)
(*   vtable  : the usize stored in the `vtable` field, i.e. the address of *)
(*             the dispatch table with the PTR_FLAGS bits or-ed in         *)
(*   extra_vtable : the EV value, 0 standing for the unit type             *)
(*   iface   : the flags of the interface type I                           *)
(* plus history fields (ctor, lib, parent, st) that the program does not   *)
(* store and that are only used to state properties and borrow rules.      *)
(***************************************************************************)
EXTENDS Integers, Sequences, FiniteSets, TLC

VARIABLES
    dyns,    \* sequence of all containers created so far
    objs,    \* sequence of all referents (heap boxes and caller-owned values)
    last,    \* observable result of the last operation
    layout   \* the order in which the linker placed the dispatch tables

vars == <<dyns, objs, last, layout>>

(* Bounds: number of containers created in one behaviour of Spec (the      *)
(* recovery operations included) and of SpecOwn (ownership only).          *)
MaxDyn == 2
MaxOwn == 3

Libs == {"bin", "lib0"}
Types == {"A", "B"}
Values == {0, 1}
\* The three implementors of GetVtable used by the constructors.
Modes == {"ImplType", "TU_Unerasable", "TU_Opaque"}
PtrKinds == {"RBox", "Ref", "RefMut"}
Layouts == {"mode_major", "type_major"}

--------------------------------------------------------------------------
(* Pointer tagging, dyn_trait.rs:1129-1131. usize arithmetic on the        *)
(* low four bits.                                                          *)
PTR_FLAGS == 15
PTR_FLAG_IS_BORROWED == 1

\* x & PTR_MASK where PTR_MASK = !PTR_FLAGS
AndPtrMask(x) == x - (x % (PTR_FLAGS + 1))
\* x & PTR_FLAGS
AndPtrFlags(x) == x % (PTR_FLAGS + 1)
\* Variant of OrIsBorrowed: the flag is added instead of or-ed.
OrIsBorrowed_Adds(x) == x + PTR_FLAG_IS_BORROWED

\* x | PTR_FLAG_IS_BORROWED
OrIsBorrowed(x) == IF x % 2 = PTR_FLAG_IS_BORROWED THEN x ELSE x + PTR_FLAG_IS_BORROWED

--------------------------------------------------------------------------
(* Dispatch tables.  One static table exists per implementor of GetVtable  *)
(* (the concrete type itself, InterfaceFor<T,I,TU_Unerasable> or           *)
(* InterfaceFor<T,I,TU_Opaque>), per original pointer type and per         *)
(* compiled component.  All containers of the model share one interface I. *)
VTKeys == [lib : Libs, mode : Modes, ty : Types, ptr : PtrKinds]

LibIx(l) == IF l = "bin" THEN 0 ELSE 1
ModeIx(m) == CASE m = "ImplType" -> 0 [] m = "TU_Unerasable" -> 1 [] OTHER -> 2
TypeIx(t) == IF t = "A" THEN 0 ELSE 1
PtrIx(p) == CASE p = "RBox" -> 0 [] p = "Ref" -> 1 [] OTHER -> 2

KeyIx(lay, k) ==
    IF lay = "mode_major"
    THEN ((LibIx(k.lib) * 3 + ModeIx(k.mode)) * 2 + TypeIx(k.ty)) * 3 + PtrIx(k.ptr)
    ELSE ((LibIx(k.lib) * 2 + TypeIx(k.ty)) * 3 + ModeIx(k.mode)) * 3 + PtrIx(k.ptr)

\* Address of the static table of a key; tables are 16-aligned.
get_vtable(lay, k) == (PTR_FLAGS + 1) * (1 + KeyIx(lay, k))

LibAt(n) == IF n = 0 THEN "bin" ELSE "lib0"
ModeAt(n) == CASE n = 0 -> "ImplType" [] n = 1 -> "TU_Unerasable" [] OTHER -> "TU_Opaque"
TypeAt(n) == IF n = 0 THEN "A" ELSE "B"
PtrAt(n) == CASE n = 0 -> "RBox" [] n = 1 -> "Ref" [] OTHER -> "RefMut"

\* The table stored at an address (inverse of get_vtable).
VTableAt(lay, addr) ==
    LET n == (addr \div (PTR_FLAGS + 1)) - 1
    IN IF lay = "mode_major"
       THEN [lib |-> LibAt(n \div 18), mode |-> ModeAt((n \div 6) % 3),
             ty |-> TypeAt((n \div 3) % 2), ptr |-> PtrAt(n % 3)]
       ELSE [lib |-> LibAt(n \div 18), ty |-> TypeAt((n \div 9) % 2),
             mode |-> ModeAt((n \div 3) % 3), ptr |-> PtrAt(n % 3)]

\* TypeInfo::_uid of a table: the identity minted for (type, component),
\* absent for TU_Opaque.
type_info(k) ==
    IF k.mode = "TU_Opaque"
    THEN [just |-> FALSE, lib |-> "none", ty |-> "none"]
    ELSE [just |-> TRUE, lib |-> k.lib, ty |-> k.ty]

\* An absent identity compares unequal to everything, itself included.
is_compatible(a, b) == a.just /\ b.just /\ a.lib = b.lib /\ a.ty = b.ty

--------------------------------------------------------------------------
(* Referents. *)
NewObj(ty, val, owner) ==
    [ty |-> ty, val |-> val, owner |-> owner, drops |-> 0, frees |-> 0, log |-> <<>>]

\* boxed.rs destroy_box: the two flags act independently, destructor first.
destroy_box(o, call_drop, dealloc) ==
    LET dropped == IF call_drop
                   THEN [o EXCEPT !.drops = @ + 1, !.log = Append(@, "drop_in_place")]
                   ELSE o
    IN IF dealloc
       THEN [dropped EXCEPT !.frees = @ + 1, !.log = Append(@, "dealloc")]
       ELSE dropped

\* boxed.rs impl Drop for RBox
RBox_drop(o) == destroy_box(o, TRUE, TRUE)

\* VTable::drop_ptr of a table: drops the pointer type the table was built for.
drop_ptr(k, o) == IF k.ptr = "RBox" THEN RBox_drop(o) ELSE o

--------------------------------------------------------------------------
(* Accessors of DynTrait. *)
sabi_vtable_address(d) == AndPtrMask(d.vtable)
sabi_vtable_ptr_flags(d) == AndPtrFlags(d.vtable)
sabi_vtable(d) == VTableAt(layout, sabi_vtable_address(d))

NoResult == [op |-> "none"]

\* The associated types of InterfaceType that the model reads.
Ifaces == [Send : BOOLEAN, Sync : BOOLEAN, Clone : BOOLEAN, Default : BOOLEAN]
\* The interface of the containers the constructors below build.
AllTraits == [Send |-> TRUE, Sync |-> TRUE, Clone |-> TRUE, Default |-> TRUE]

\* Variant of CtorMode: from_borrowing_ptr takes the TU_Unerasable table.
CtorMode_BorrowingUnerasable(ctor) ==
    IF ctor = "from_ptr" THEN "ImplType" ELSE "TU_Unerasable"

\* The constructing mode of each from_* path.
CtorMode(ctor) ==
    CASE ctor = "from_ptr" -> "ImplType"
      [] ctor = "from_any_ptr" -> "TU_Unerasable"
      [] OTHER -> "TU_Opaque"
Ctors == {"from_ptr", "from_any_ptr", "from_borrowing_ptr"}
CtorPtrKinds == {"RBox", "Ref"}

\* from_ptr / from_any_ptr / from_borrowing_ptr: transmute the pointer and
\* store the table of the matching GetVtable implementor.
from_ptr_with(lay, ctor, lib, ty, kind, addr) ==
    [object |-> [kind |-> kind, addr |-> addr],
     vtable |-> get_vtable(lay, [lib |-> lib, mode |-> CtorMode(ctor),
                                 ty |-> ty, ptr |-> kind]),
     extra_vtable |-> 0, iface |-> AllTraits,
     ctor |-> ctor, root |-> ctor, lib |-> lib, parent |-> 0, st |-> "live"]

\* DynTrait::with_vtable: the caller names the mode and passes the extra
\* vtable.
with_vtable(lay, mode, lib, ty, kind, addr, extra_vtable) ==
    [object |-> [kind |-> kind, addr |-> addr],
     vtable |-> get_vtable(lay, [lib |-> lib, mode |-> mode, ty |-> ty, ptr |-> kind]),
     extra_vtable |-> extra_vtable, iface |-> AllTraits,
     ctor |-> "with_vtable", root |-> "with_vtable", lib |-> lib, parent |-> 0,
     st |-> "live"]

--------------------------------------------------------------------------
(* Borrow discipline enforced by the borrow checker on the callers. *)
Slots == 1..Len(dyns)
Held(i) == dyns[i].st \in {"live", "inErr"}
Children(i) == {j \in Slots : dyns[j].parent = i /\ Held(j)}
MutChildren(i) == {j \in Children(i) : dyns[j].object.kind = "RefMut"}
CanShare(i) == dyns[i].st = "live" /\ MutChildren(i) = {}
CanMut(i) == dyns[i].st = "live" /\ Children(i) = {}

Init ==
    /\ dyns = <<>>
    /\ objs = <<>>
    /\ last = NoResult
    /\ layout = "mode_major"

\* Containers built by different constructor calls share no state, so a
\* behaviour follows one constructed container and what is derived from it.
\* DynTrait::from_value / from_ptr / from_any_* / from_borrowing_*
Construct(ctor, lib, ty, val, kind) ==
    /\ dyns = <<>>
    /\ objs' = Append(objs, NewObj(ty, val, IF kind = "RBox" THEN "box" ELSE "stack"))
    /\ dyns' = Append(dyns, from_ptr_with(layout, ctor, lib, ty, kind, Len(objs) + 1))
    /\ last' = [op |-> ctor, c |-> Len(dyns) + 1]
    /\ UNCHANGED layout

ExtraVtables == {1, 2}
WithModes == {"TU_Unerasable", "TU_Opaque"}

\* DynTrait::with_vtable
ConstructWith(mode, lib, ty, val, kind, extra_vtable) ==
    /\ dyns = <<>>
    /\ objs' = Append(objs, NewObj(ty, val, IF kind = "RBox" THEN "box" ELSE "stack"))
    /\ dyns' = Append(dyns,
          with_vtable(layout, mode, lib, ty, kind, Len(objs) + 1, extra_vtable))
    /\ last' = [op |-> "with_vtable", c |-> Len(dyns) + 1]
    /\ UNCHANGED layout

\* Variant of DynTrait_drop: the borrowed flag is not consulted.
DynTrait_drop_IgnoresFlag(d, os) ==
    [os EXCEPT ![d.object.addr] = drop_ptr(sabi_vtable(d), @)]

\* impl Drop for DynTrait: nothing for a flagged (reborrowed) container,
\* otherwise the table's drop_ptr is run on the stored pointer.
DynTrait_drop(d, os) ==
    IF sabi_vtable_ptr_flags(d) % 2 = PTR_FLAG_IS_BORROWED
    THEN os
    ELSE [os EXCEPT ![d.object.addr] = drop_ptr(sabi_vtable(d), @)]

\* A container, or the UneraseError that holds it, goes out of scope.
Drop(i) ==
    /\ i \in Slots
    /\ Held(i)
    /\ Children(i) = {}
    /\ objs' = DynTrait_drop(dyns[i], objs)
    /\ dyns' = [dyns EXCEPT ![i].st = "dropped"]
    /\ last' = [op |-> "drop", c |-> i]
    /\ UNCHANGED layout

\* Variant of ReborrowBounds: every combination of flags is accepted.
ReborrowBounds_AnyFlags(SendNess, SyncNess) == TRUE

\* impl ReborrowBounds<False,False> / <True,True> for PrivStruct
ReborrowBounds(SendNess, SyncNess) == SendNess = SyncNess

\* Variant of reborrow: PTR_FLAG_IS_BORROWED is not set.
reborrow_NoFlag(d, i) ==
    [object |-> [kind |-> "Ref", addr |-> d.object.addr],
     vtable |-> d.vtable,
     extra_vtable |-> d.extra_vtable, iface |-> d.iface,
     ctor |-> "reborrow", root |-> d.root, lib |-> d.lib, parent |-> i, st |-> "live"]

\* DynTrait::reborrow
reborrow(d, i) ==
    [object |-> [kind |-> "Ref", addr |-> d.object.addr],
     vtable |-> OrIsBorrowed(d.vtable),
     extra_vtable |-> d.extra_vtable, iface |-> d.iface,
     ctor |-> "reborrow", root |-> d.root, lib |-> d.lib, parent |-> i, st |-> "live"]

\* Variant of reborrow_mut: the table is derived again, for the new pointer
\* type.
reborrow_mut_RederivesTable(d, i) ==
    [object |-> [kind |-> "RefMut", addr |-> d.object.addr],
     vtable |-> OrIsBorrowed(get_vtable(layout, [sabi_vtable(d) EXCEPT !.ptr = "RefMut"])),
     extra_vtable |-> d.extra_vtable, iface |-> d.iface,
     ctor |-> "reborrow_mut", root |-> d.root, lib |-> d.lib, parent |-> i, st |-> "live"]

\* DynTrait::reborrow_mut
reborrow_mut(d, i) ==
    [object |-> [kind |-> "RefMut", addr |-> d.object.addr],
     vtable |-> OrIsBorrowed(d.vtable),
     extra_vtable |-> d.extra_vtable, iface |-> d.iface,
     ctor |-> "reborrow_mut", root |-> d.root, lib |-> d.lib, parent |-> i, st |-> "live"]

Reborrow(cap, i) ==
    /\ i \in Slots
    /\ Len(dyns) < cap
    /\ CanShare(i)
    /\ ReborrowBounds(dyns[i].iface.Send, dyns[i].iface.Sync)
    /\ dyns' = Append(dyns, reborrow(dyns[i], i))
    /\ last' = [op |-> "reborrow", c |-> Len(dyns) + 1]
    /\ UNCHANGED <<objs, layout>>

ReborrowMut(cap, i) ==
    /\ i \in Slots
    /\ Len(dyns) < cap
    /\ CanMut(i)
    /\ dyns[i].object.kind \in {"RBox", "RefMut"}
    /\ ReborrowBounds(dyns[i].iface.Send, dyns[i].iface.Sync)
    /\ dyns' = Append(dyns, reborrow_mut(dyns[i], i))
    /\ last' = [op |-> "reborrow_mut", c |-> Len(dyns) + 1]
    /\ UNCHANGED <<objs, layout>>

\* GetPointerKind::Kind of the pointer types.
GetPointerKind(kind) ==
    CASE kind = "RBox" -> "PK_SmartPointer"
      [] kind = "Ref" -> "PK_Reference"
      [] OTHER -> "PK_MutReference"

\* Variant of HasCloneImpl: Clone is implemented for every pointer kind.
HasCloneImpl_AnyPointer(d) == d.iface.Clone

\* Self: CloneImpl<<P as GetPointerKind>::Kind>, I: Clone = True.
HasCloneImpl(d) ==
    /\ GetPointerKind(d.object.kind) \in {"PK_SmartPointer", "PK_Reference"}
    /\ d.iface.Clone

\* The bounds of DynTrait::default:
\* P: GetPointerKind<Kind = PK_SmartPointer>, I: Default = True.
HasDefault(d) ==
    /\ GetPointerKind(d.object.kind) = "PK_SmartPointer"
    /\ d.iface.Default

\* DynTrait::from_new_ptr: a new pointer under the same `vtable` field.
from_new_ptr(d, object, extra_vtable, ctor, parent) ==
    [object |-> object, vtable |-> d.vtable,
     extra_vtable |-> extra_vtable, iface |-> d.iface,
     ctor |-> ctor, root |-> d.root, lib |-> d.lib, parent |-> parent, st |-> "live"]

sabi_extra_vtable(d) == d.extra_vtable

\* VTable::clone_ptr: a new box holding a duplicate of the value.
clone_ptr(o) == NewObj(o.ty, o.val, "box")
\* VTable::default_ptr: a new box holding T::default().
default_ptr(k) == NewObj(k.ty, 0, "box")

\* Variant of clone_impl: a smart pointer is copied like a reference.
clone_impl_CopiesPointer(d, os) ==
    [os |-> os, new |-> from_new_ptr(d, d.object, sabi_extra_vtable(d), "clone", d.parent)]

\* CloneImpl<PK_SmartPointer>: the table's clone_ptr allocates a duplicate.
\* CloneImpl<PK_Reference>: the pointer value is copied.
clone_impl(d, os) ==
    IF GetPointerKind(d.object.kind) = "PK_SmartPointer"
    THEN [os |-> Append(os, clone_ptr(os[d.object.addr])),
          new |-> from_new_ptr(d, [kind |-> d.object.kind, addr |-> Len(os) + 1],
                               sabi_extra_vtable(d), "clone", 0)]
    ELSE [os |-> os,
          new |-> from_new_ptr(d, d.object, sabi_extra_vtable(d), "clone", d.parent)]

\* impl Clone for DynTrait
Clone(cap, i) ==
    /\ i \in Slots
    /\ Len(dyns) < cap
    /\ CanShare(i)
    /\ HasCloneImpl(dyns[i])
    /\ \E r \in {clone_impl(dyns[i], objs)} :
          /\ objs' = r.os
          /\ dyns' = Append(dyns, r.new)
    /\ last' = [op |-> "clone", c |-> Len(dyns) + 1, src |-> i]
    /\ UNCHANGED layout

\* DynTrait::default
Default(cap, i) ==
    /\ i \in Slots
    /\ Len(dyns) < cap
    /\ CanShare(i)
    /\ HasDefault(dyns[i])
    /\ objs' = Append(objs, default_ptr(sabi_vtable(dyns[i])))
    /\ dyns' = Append(dyns,
          from_new_ptr(dyns[i], [kind |-> dyns[i].object.kind, addr |-> Len(objs) + 1],
                       sabi_extra_vtable(dyns[i]), "default", 0))
    /\ last' = [op |-> "default", c |-> Len(dyns) + 1, src |-> i]
    /\ UNCHANGED layout

--------------------------------------------------------------------------
(* Recovery of the concrete type. *)
RecoverOps == {"sabi_into_unerased", "sabi_as_unerased", "sabi_as_unerased_mut",
               "sabi_into_any_unerased", "sabi_as_any_unerased",
               "sabi_as_any_unerased_mut"}
IntoOps == {"sabi_into_unerased", "sabi_into_any_unerased"}
AsOps == {"sabi_as_unerased", "sabi_as_any_unerased"}
AsMutOps == {"sabi_as_unerased_mut", "sabi_as_any_unerased_mut"}
AnyOps == {"sabi_into_any_unerased", "sabi_as_any_unerased", "sabi_as_any_unerased_mut"}

\* The GetVtable implementor A each recovery derives the table from:
\* T itself, or InterfaceFor<T,I,TU_Unerasable> for the any-variants.
RecoverMode(op) == IF op \in AnyOps THEN "TU_Unerasable" ELSE "ImplType"

\* Variant of sabi_check_same_destructor: the tables are matched by the
\* name of the type they were built for.
sabi_check_same_destructor_ByName(d, lib, mode, ty) ==
    LET t_key == [lib |-> lib, mode |-> mode, ty |-> ty, ptr |-> d.object.kind]
    IN IF sabi_vtable(d).ty = ty
       THEN [ok |-> TRUE, expected_vtable_address |-> get_vtable(layout, t_key),
             found_vtable_address |-> sabi_vtable_address(d)]
       ELSE [ok |-> FALSE, expected_vtable_address |-> get_vtable(layout, t_key),
             found_vtable_address |-> d.vtable]

\* sabi_check_same_destructor::<A,T>, called in component `lib`.
sabi_check_same_destructor(d, lib, mode, ty) ==
    LET t_key == [lib |-> lib, mode |-> mode, ty |-> ty, ptr |-> d.object.kind]
    IN IF \/ sabi_vtable_address(d) = get_vtable(layout, t_key)
          \/ is_compatible(type_info(sabi_vtable(d)), type_info(t_key))
       THEN [ok |-> TRUE, expected_vtable_address |-> get_vtable(layout, t_key),
             found_vtable_address |-> sabi_vtable_address(d)]
       ELSE [ok |-> FALSE, expected_vtable_address |-> get_vtable(layout, t_key),
             found_vtable_address |-> d.vtable]

\* Variant of AfterUnerase: a failed sabi_into_* loses the container.
AfterUnerase_ConsumesOnError(op, ok, st) ==
    IF op \in IntoOps THEN (IF ok THEN "moved" ELSE "dropped") ELSE st

\* The state of the container after the call: a successful sabi_into_*
\* moves the pointer out without running Drop, a failed one moves the
\* container into the UneraseError (check_unerased!), the as-variants
\* only borrow it.
AfterUnerase(op, ok, st) ==
    IF op \in IntoOps THEN (IF ok THEN "moved" ELSE "inErr") ELSE st

\* Variant of ForgetContainer: the container's Drop runs after the pointer
\* was read out of it.
ForgetContainer_RunsDrop(op, ok, d, os) ==
    IF op \in IntoOps /\ ok THEN DynTrait_drop(d, os) ELSE os

\* The referents after a recovery call: the container is wrapped in
\* ManuallyDrop before the pointer is read out, so no destructor runs.
ForgetContainer(op, ok, d, os) == os

\* sabi_into_unerased, sabi_as_unerased, sabi_as_unerased_mut and the
\* any-variants, called in component `lib` with candidate type `ty`.
Unerase(op, i, lib, ty) ==
    /\ i \in Slots
    /\ IF op \in AsOps THEN CanShare(i) ELSE CanMut(i)
    /\ op \in AsMutOps => dyns[i].object.kind \in {"RBox", "RefMut"}
    /\ \E chk \in {sabi_check_same_destructor(dyns[i], lib, RecoverMode(op), ty)} :
          /\ dyns' = [dyns EXCEPT ![i].st = AfterUnerase(op, chk.ok, @)]
          /\ last' = [op |-> op, c |-> i, lib |-> lib, ty |-> ty, ok |-> chk.ok,
                      ret |-> IF chk.ok THEN dyns[i].object.addr ELSE 0,
                      expected_vtable_address |-> chk.expected_vtable_address,
                      found_vtable_address |-> chk.found_vtable_address]
          /\ objs' = ForgetContainer(op, chk.ok, dyns[i], objs)
    /\ UNCHANGED layout

\* Variant of IntoInner: the referent is moved along with the container.
IntoInner_MovesReferent(i) ==
    /\ i \in Slots
    /\ dyns[i].st = "inErr"
    /\ objs' = Append(objs, objs[dyns[i].object.addr])
    /\ dyns' = [dyns EXCEPT ![i].st = "live", ![i].object.addr = Len(objs) + 1]
    /\ last' = [op |-> "into_inner", c |-> i]
    /\ UNCHANGED layout

\* UneraseError::into_inner: hands the container back.
IntoInner(i) ==
    /\ i \in Slots
    /\ dyns[i].st = "inErr"
    /\ dyns' = [dyns EXCEPT ![i].st = "live"]
    /\ last' = [op |-> "into_inner", c |-> i]
    /\ UNCHANGED <<objs, layout>>

Next ==
    \/ \E ctor \in Ctors, lib \in Libs, ty \in Types, val \in Values, kind \in CtorPtrKinds :
          Construct(ctor, lib, ty, val, kind)
    \/ \E i \in 1..MaxDyn : Drop(i)
    \/ \E i \in 1..MaxDyn : Reborrow(MaxDyn, i)
    \/ \E i \in 1..MaxDyn : ReborrowMut(MaxDyn, i)
    \/ \E i \in 1..MaxDyn : Clone(MaxDyn, i)
    \/ \E op \in RecoverOps, i \in 1..MaxDyn, lib \in Libs, ty \in Types :
          Unerase(op, i, lib, ty)
    \/ \E i \in 1..MaxDyn : IntoInner(i)

\* Ownership only: construction, reborrows, clones, defaults and drops.
NextOwn ==
    \/ \E ctor \in Ctors, lib \in Libs, ty \in Types, val \in Values, kind \in CtorPtrKinds :
          Construct(ctor, lib, ty, val, kind)
    \/ \E i \in 1..MaxOwn : Drop(i)
    \/ \E i \in 1..MaxOwn : Reborrow(MaxOwn, i)
    \/ \E i \in 1..MaxOwn : ReborrowMut(MaxOwn, i)
    \/ \E i \in 1..MaxOwn : Clone(MaxOwn, i)
    \/ \E i \in 1..MaxOwn : Default(MaxOwn, i)
    \/ \E mode \in WithModes, lib \in Libs, ty \in Types, val \in Values,
          kind \in CtorPtrKinds, ev \in ExtraVtables :
          ConstructWith(mode, lib, ty, val, kind, ev)

SpecOwn == Init /\ [][NextOwn]_vars

Spec == Init /\ [][Next]_vars

--------------------------------------------------------------------------
(* Comparison of containers (impl PartialEq / Ord / PartialOrd and         *)
(* sabi_is_same_type).  The operands are containers built by the from_*    *)
(* constructors, each over its own referent.                               *)
CtorInputs == [ctor : Ctors, lib : Libs, ty : Types, val : Values, kind : CtorPtrKinds]

Built(lay, in, addr) == from_ptr_with(lay, in.ctor, in.lib, in.ty, in.kind, addr)
Referent(in) == NewObj(in.ty, in.val, IF in.kind = "RBox" THEN "box" ELSE "stack")

\* Ordering as its repr: Less = -1, Equal = 0, Greater = 1.
Ordering(x, y) == IF x < y THEN -1 ELSE IF x = y THEN 0 ELSE 1

\* DynTrait::sabi_is_same_type
sabi_is_same_type(a, b) ==
    \/ sabi_vtable_address(a) = sabi_vtable_address(b)
    \/ is_compatible(type_info(sabi_vtable(a)), type_info(sabi_vtable(b)))

\* Variant of PartialEq_eq: the type check is skipped.
PartialEq_eq_Unchecked(a, b) ==
    [res |-> objs[a.object.addr].val = objs[b.object.addr].val, called |-> TRUE]

\* impl PartialEq for DynTrait: `called` records whether the wrapped
\* values' partial_eq was invoked.
PartialEq_eq(a, b) ==
    IF ~sabi_is_same_type(a, b)
    THEN [res |-> FALSE, called |-> FALSE]
    ELSE [res |-> objs[a.object.addr].val = objs[b.object.addr].val, called |-> TRUE]

\* Variant of Ord_cmp: the wrapped values are compared without the type
\* check.
Ord_cmp_ValuesOnly(a, b) ==
    Ordering(objs[a.object.addr].val, objs[b.object.addr].val)

\* impl Ord for DynTrait (both operands have the same pointer type).
Ord_cmp(a, b) ==
    IF ~sabi_is_same_type(a, b)
    THEN Ordering(sabi_vtable_address(a), sabi_vtable_address(b))
    ELSE Ordering(objs[a.object.addr].val, objs[b.object.addr].val)

\* impl PartialOrd for DynTrait: the result is an Option<Ordering>, the
\* wrapped values' partial_cmp being total on the values of the model.
PartialOrd_partial_cmp(a, b) ==
    IF ~sabi_is_same_type(a, b)
    THEN <<Ordering(sabi_vtable_address(a), sabi_vtable_address(b))>>
    ELSE <<Ordering(objs[a.object.addr].val, objs[b.object.addr].val)>>

\* Two operands: either built by two constructor calls, or a constructed
\* container and a shared reborrow of it.
InitEq ==
    /\ layout \in Layouts
    /\ last = NoResult
    /\ \/ \E in1 \in CtorInputs, in2 \in CtorInputs :
             /\ dyns = <<Built(layout, in1, 1), Built(layout, in2, 2)>>
             /\ objs = <<Referent(in1), Referent(in2)>>
       \/ \E in1 \in CtorInputs :
             /\ dyns = <<Built(layout, in1, 1), reborrow(Built(layout, in1, 1), 1)>>
             /\ objs = <<Referent(in1)>>

IsSameType(i, j) ==
    /\ i \in Slots /\ j \in Slots
    /\ last' = [op |-> "sabi_is_same_type", a |-> i, b |-> j,
                res |-> sabi_is_same_type(dyns[i], dyns[j])]
    /\ UNCHANGED <<dyns, objs, layout>>

Eq(i, j) ==
    /\ i \in Slots /\ j \in Slots
    /\ LET r == PartialEq_eq(dyns[i], dyns[j])
       IN last' = [op |-> "eq", a |-> i, b |-> j, res |-> r.res, called |-> r.called]
    /\ UNCHANGED <<dyns, objs, layout>>

NextEq ==
    \/ \E i \in 1..2, j \in 1..2 : IsSameType(i, j)
    \/ \E i \in 1..2, j \in 1..2 : Eq(i, j)

SpecEq == InitEq /\ [][NextEq]_vars

PartialCmp(i, j) ==
    /\ i \in Slots /\ j \in Slots
    /\ last' = [op |-> "partial_cmp", a |-> i, b |-> j,
                res |-> PartialOrd_partial_cmp(dyns[i], dyns[j])]
    /\ UNCHANGED <<dyns, objs, layout>>

\* Three operands of one pointer type, as Ord::cmp requires.
InitOrd ==
    /\ layout \in Layouts
    /\ last = NoResult
    /\ \E in1 \in CtorInputs, in2 \in CtorInputs, in3 \in CtorInputs :
          /\ in1.kind = in2.kind /\ in2.kind = in3.kind
          /\ dyns = <<Built(layout, in1, 1), Built(layout, in2, 2), Built(layout, in3, 3)>>
          /\ objs = <<Referent(in1), Referent(in2), Referent(in3)>>

Cmp(i, j) ==
    /\ i \in Slots /\ j \in Slots
    /\ dyns[i].object.kind = dyns[j].object.kind
    /\ last' = [op |-> "cmp", a |-> i, b |-> j, res |-> Ord_cmp(dyns[i], dyns[j])]
    /\ UNCHANGED <<dyns, objs, layout>>

NextOrd == \E i \in 1..3, j \in 1..3 : Cmp(i, j)

SpecOrd == InitOrd /\ [][NextOrd]_vars

\* The three comparison operators over the two operands of InitEq.
NextRel ==
    \/ \E i \in 1..2, j \in 1..2 : Eq(i, j)
    \/ \E i \in 1..2, j \in 1..2 : Cmp(i, j)
    \/ \E i \in 1..2, j \in 1..2 : PartialCmp(i, j)

SpecRel == InitEq /\ [][NextRel]_vars

--------------------------------------------------------------------------
(* Properties. *)
Obj(d) == objs[d.object.addr]
Intact(o) == o.drops = 0 /\ o.frees = 0
Reborrows == {"reborrow", "reborrow_mut"}
NonBorrowing == {"from_ptr", "from_any_ptr"}
\* from_value/from_ptr pair with sabi_*_unerased, from_any_* with sabi_*_any_unerased.
Matching(ctor, op) ==
    \/ ctor = "from_ptr" /\ op \in RecoverOps \ AnyOps
    \/ ctor = "from_any_ptr" /\ op \in AnyOps
LastDyn == dyns[last.c]

\* C1: a container built by from_ptr/from_value or from_any_ptr/from_any_value,
\* recovered with the same type T in the same component by the matching
\* recovery operation, returns Ok with a pointer to the original, undestroyed
\* value of type T; sabi_into_* hands the pointer over without dropping.
C1_RecoverySameTypeSucceeds ==
    (/\ last.op \in RecoverOps
     /\ Matching(LastDyn.ctor, last.op)
     /\ last.lib = LastDyn.lib
     /\ last.ty = Obj(LastDyn).ty)
    => /\ last.ok
       /\ last.ret = LastDyn.object.addr
       /\ objs[last.ret].ty = last.ty
       /\ Intact(objs[last.ret])
       /\ LastDyn.st = IF last.op \in IntoOps THEN "moved" ELSE "live"

C1_Witness ==
    /\ last.op \in IntoOps
    /\ Matching(LastDyn.ctor, last.op)
    /\ last.lib = LastDyn.lib /\ last.ty = Obj(LastDyn).ty
    /\ last.ok /\ LastDyn.st = "moved" /\ LastDyn.object.kind = "RBox"

\* C2: recovery with a type U other than the wrapped type returns an
\* UneraseError; the container is kept (inside the error for sabi_into_*, from
\* which into_inner returns it), the wrapped value is not destroyed, and a
\* later recovery with the right type succeeds.
C2_FailedRecoveryGivesBack ==
    /\ (last.op \in RecoverOps /\ last.ty # Obj(LastDyn).ty)
       => /\ ~last.ok
          /\ last.ret = 0
          /\ LastDyn.st = IF last.op \in IntoOps THEN "inErr" ELSE "live"
          /\ Intact(Obj(LastDyn))
    /\ last.op = "into_inner"
       => /\ LastDyn.st = "live"
          /\ Intact(Obj(LastDyn))
          /\ LastDyn.root \in NonBorrowing =>
                \A m \in {"ImplType", "TU_Unerasable"} :
                    sabi_check_same_destructor(LastDyn, LastDyn.lib, m, Obj(LastDyn).ty).ok

C2_Witness ==
    /\ last.op = "into_inner"
    /\ LastDyn.ctor \in NonBorrowing
    /\ LastDyn.object.kind = "RBox"
    /\ LastDyn.st = "live"

\* C3 (as claimed): no recovery entry point is ever invoked on a container
\* constructed by from_borrowing_value / from_borrowing_ptr.
C3_NoRecoveryOnBorrowing ==
    ~(last.op \in RecoverOps /\ LastDyn.ctor = "from_borrowing_ptr")

\* C3 (amended): the recovery entry points can be invoked on a container
\* constructed by a borrowing entry point, and every such call takes the
\* runtime failure path: it returns an UneraseError naming the table found.
C3_BorrowingRecoveryIsRuntimeError ==
    (last.op \in RecoverOps /\ LastDyn.ctor = "from_borrowing_ptr")
    => /\ ~last.ok
       /\ last.found_vtable_address = LastDyn.vtable
       /\ last.expected_vtable_address # last.found_vtable_address

C3_Witness ==
    /\ last.op \in RecoverOps
    /\ LastDyn.ctor = "from_borrowing_ptr"
    /\ last.ty = Obj(LastDyn).ty /\ last.lib = LastDyn.lib
    /\ ~last.ok

\* C4: a container that stems from from_borrowing_value / from_borrowing_ptr
\* (itself, its reborrows and its clones) is never converted back: every
\* recovery operation fails on it for every candidate type and component,
\* whatever was done before.
C4_BorrowingNeverRecovered ==
    \A i \in Slots :
        dyns[i].root = "from_borrowing_ptr"
        => /\ dyns[i].st # "moved"
           /\ (last.op \in RecoverOps /\ last.c = i) => ~last.ok
           /\ \A op \in RecoverOps, lib \in Libs, ty \in Types :
                 ~sabi_check_same_destructor(dyns[i], lib, RecoverMode(op), ty).ok

C4_Witness ==
    /\ last.op \in RecoverOps
    /\ LastDyn.root = "from_borrowing_ptr"
    /\ LastDyn.ctor \in Reborrows \cup {"clone"}
    /\ last.ty = Obj(LastDyn).ty /\ last.lib = LastDyn.lib
    /\ ~last.ok
    /\ \E j \in Slots : dyns[j].st = "inErr"

\* C5: a recovery operation called in a component other than the one that
\* constructed the container returns an error, also for the very type the
\* container wraps.
C5_CrossLibraryRecoveryFails ==
    (last.op \in RecoverOps /\ last.lib # LastDyn.lib) => ~last.ok /\ last.ret = 0

C5_Witness ==
    /\ last.op \in RecoverOps
    /\ last.lib # LastDyn.lib
    /\ LastDyn.root \in NonBorrowing
    /\ last.ty = Obj(LastDyn).ty
    /\ ~last.ok

\* C7: dropping a reborrow (shared or exclusive, nested or not) runs no
\* destructor and leaves the container it was taken from as it was; every
\* boxed value is destroyed and freed exactly once, when its owner is dropped.
C7_ReborrowDropHarmless ==
    /\ \A a \in 1..Len(objs) : objs[a].drops <= 1 /\ objs[a].frees <= 1
    /\ \A i \in Slots :
          dyns[i].object.kind = "RBox"
          => /\ Obj(dyns[i]).drops = IF dyns[i].st = "dropped" THEN 1 ELSE 0
             /\ Obj(dyns[i]).frees = IF dyns[i].st = "dropped" THEN 1 ELSE 0
    /\ (last.op = "drop" /\ LastDyn.ctor \in Reborrows)
       => /\ Intact(Obj(LastDyn))
          /\ dyns[LastDyn.parent].st = "live"
          /\ dyns[LastDyn.parent].object.addr = LastDyn.object.addr
          /\ sabi_vtable_address(dyns[LastDyn.parent]) = sabi_vtable_address(LastDyn)

C7_Witness ==
    /\ last.op = "drop"
    /\ LastDyn.ctor = "from_ptr" /\ LastDyn.object.kind = "RBox"
    /\ Obj(LastDyn).drops = 1
    /\ \E i \in Slots, j \in Slots :
          /\ dyns[i].ctor = "reborrow_mut" /\ dyns[i].parent = last.c
          /\ dyns[j].ctor = "reborrow" /\ dyns[j].parent = i
          /\ dyns[i].st = "dropped" /\ dyns[j].st = "dropped"

\* C8: dropping a container whose table reference carries the borrowed flag
\* destroys nothing; dropping one without the flag runs the destructor and
\* frees the storage exactly once when the pointer is an owning one, and
\* does nothing to the referent of a reference.
C8_DropHonoursBorrowedFlag ==
    last.op = "drop"
    => IF sabi_vtable_ptr_flags(LastDyn) = PTR_FLAG_IS_BORROWED
       THEN Intact(Obj(LastDyn))
       ELSE IF LastDyn.object.kind = "RBox"
            THEN Obj(LastDyn).drops = 1 /\ Obj(LastDyn).frees = 1
            ELSE Intact(Obj(LastDyn))

C8_Witness ==
    /\ last.op = "drop"
    /\ sabi_vtable_ptr_flags(LastDyn) = 0
    /\ LastDyn.object.kind = "RBox"
    /\ Obj(LastDyn).drops = 1 /\ Obj(LastDyn).frees = 1
    /\ \E j \in Slots : sabi_vtable_ptr_flags(dyns[j]) = PTR_FLAG_IS_BORROWED
                        /\ dyns[j].st = "dropped"

\* C6: sabi_is_same_type(a, b) on two different containers is true only if
\* both were built by a non-borrowing constructor, in the same component,
\* around values of the same concrete type.
C6_SameTypeOnlySameOrigin ==
    (last.op = "sabi_is_same_type" /\ last.a # last.b /\ last.res)
    => /\ dyns[last.a].root \in NonBorrowing
       /\ dyns[last.b].root \in NonBorrowing
       /\ dyns[last.a].lib = dyns[last.b].lib
       /\ Obj(dyns[last.a]).ty = Obj(dyns[last.b]).ty

\* C9: Ord::cmp is a total order on containers of one pointer type and
\* interface: cmp(b,a) is the reverse of cmp(a,b), a<=b and b<=c imply a<=c,
\* and for operands of incompatible types the result is the comparison of
\* the two table addresses.
C9_CmpTotalOrder ==
    last.op = "cmp"
    => LET a == dyns[last.a]
           b == dyns[last.b]
       IN /\ Ord_cmp(b, a) = 0 - last.res
          /\ \A k \in Slots :
                (last.res <= 0 /\ Ord_cmp(b, dyns[k]) <= 0) => Ord_cmp(a, dyns[k]) <= 0
          /\ ~sabi_is_same_type(a, b)
             => last.res = Ordering(sabi_vtable_address(a), sabi_vtable_address(b))

\* C10: eq first checks that the two containers hold the same type: if not
\* it returns false without calling the wrapped values' comparison; if so it
\* returns the wrapped values' PartialEq result whatever the two pointer
\* types are.  Values of different concrete types are never compared.
C10_EqChecksTypeFirst ==
    last.op = "eq"
    => LET a == dyns[last.a]
           b == dyns[last.b]
       IN /\ ~sabi_is_same_type(a, b) => (~last.res /\ ~last.called)
          /\ sabi_is_same_type(a, b)
             => (last.called /\ last.res = (Obj(a).val = Obj(b).val))
          /\ (/\ a.root \in NonBorrowing /\ b.root \in NonBorrowing
              /\ a.lib = b.lib /\ Obj(a).ty = Obj(b).ty)
             => last.res = (Obj(a).val = Obj(b).val)
          /\ Obj(a).ty # Obj(b).ty => (~last.res /\ ~last.called)

C10_Witness ==
    /\ last.op = "eq"
    /\ last.a # last.b
    /\ dyns[last.a].object.kind # dyns[last.b].object.kind
    /\ dyns[last.a].ctor # dyns[last.b].ctor
    /\ last.called /\ last.res
RECURSIVE IsAncestor(_, _)
\* i is the container j was (transitively) reborrowed from.
IsAncestor(i, j) ==
    IF dyns[j].parent = 0 THEN FALSE
    ELSE dyns[j].parent = i \/ IsAncestor(i, dyns[j].parent)

Flagged(d) == sabi_vtable_ptr_flags(d) = PTR_FLAG_IS_BORROWED

\* C13: default() is never available on a reborrowed container and clone()
\* never on an exclusively reborrowed one: every default() was called on an
\* unflagged owning container, every clone() on a container that is not a
\* &mut one, no container that carries the borrowed flag owns its referent,
\* and two exclusive handles to one referent are always nested reborrows.
C13_ReborrowsMakeNoOwner ==
    /\ last.op = "default"
       => /\ dyns[last.src].object.kind = "RBox"
          /\ ~Flagged(dyns[last.src])
          /\ dyns[last.src].ctor \notin Reborrows
    /\ last.op = "clone"
       => /\ dyns[last.src].object.kind # "RefMut"
          /\ dyns[last.src].ctor # "reborrow_mut"
    /\ \A i \in Slots :
          /\ dyns[i].ctor \in Reborrows => ~HasDefault(dyns[i])
          /\ dyns[i].ctor = "reborrow_mut" => ~HasCloneImpl(dyns[i])
          /\ Flagged(dyns[i]) => dyns[i].object.kind # "RBox"
    /\ \A i \in Slots, j \in Slots :
          (/\ i # j /\ Held(i) /\ Held(j)
           /\ dyns[i].object.kind = "RefMut" /\ dyns[j].object.kind = "RefMut"
           /\ dyns[i].object.addr = dyns[j].object.addr)
          => IsAncestor(i, j) \/ IsAncestor(j, i)

C13_Witness ==
    /\ last.op = "clone"
    /\ dyns[last.src].ctor = "reborrow"
    /\ Flagged(LastDyn)
    /\ LastDyn.object.kind = "Ref"
    /\ dyns[dyns[last.src].parent].object.kind = "RBox"

\* C14: clone() of a container with an owning pointer yields a container that
\* owns a new box holding a duplicate of the value; clone() of a container
\* with a reference pointer yields a container with the same pointer; in both
\* cases the `vtable` field (flag bits included) and the extra vtable are
\* those of the source.
C14_ClonePerPointerKind ==
    last.op = "clone"
    => LET src == dyns[last.src]
           new == LastDyn
       IN /\ new.vtable = src.vtable
          /\ new.extra_vtable = src.extra_vtable
          /\ new.object.kind = src.object.kind
          /\ IF src.object.kind = "RBox"
             THEN /\ new.object.addr # src.object.addr
                  /\ \A k \in Slots \ {last.c} : dyns[k].object.addr # new.object.addr
                  /\ Obj(new).ty = Obj(src).ty /\ Obj(new).val = Obj(src).val
                  /\ Obj(new).owner = "box" /\ Intact(Obj(new))
             ELSE new.object.addr = src.object.addr

C14_Witness ==
    /\ last.op = "clone"
    /\ dyns[last.src].object.kind = "RBox"
    /\ dyns[last.src].ctor = "clone"
    /\ LastDyn.extra_vtable = 2
    /\ Obj(LastDyn).val = 1

\* C15: no step changes the `vtable` field of an existing container, and
\* every container derived from a constructed one (by reborrow,
\* reborrow_mut, clone or default) refers to the table of that container.
C15_TableFixedAtConstruction ==
    [][/\ \A i \in Slots : dyns'[i].vtable = dyns[i].vtable
       /\ \A i \in 1..Len(dyns') :
             /\ AndPtrMask(dyns'[i].vtable) = AndPtrMask(dyns'[1].vtable)
             /\ dyns'[i].extra_vtable = dyns'[1].extra_vtable]_vars

C15_Witness ==
    /\ Len(dyns) = 3
    /\ dyns[2].ctor = "default"
    /\ dyns[3].ctor = "reborrow_mut" /\ dyns[3].parent = 2
    /\ dyns[1].ctor = "with_vtable"

\* C16: the UneraseError of a failed recovery holds the address of the table
\* derived for the candidate type and the address of the table the container
\* refers to, as sabi_vtable_address reports it.
C16_ErrorReportsTableAddresses ==
    (last.op \in RecoverOps /\ ~last.ok)
    => /\ last.expected_vtable_address =
             get_vtable(layout, [lib |-> last.lib, mode |-> RecoverMode(last.op),
                                 ty |-> last.ty, ptr |-> LastDyn.object.kind])
       /\ last.found_vtable_address = sabi_vtable_address(LastDyn)
--------------------------------------------------------------------------
(* Thread-safety classification (unsafe impl Send / Sync for DynTrait).    *)
(* The pointer types hold the erased pointee `()`.                         *)
UnitIsSend == TRUE
UnitIsSync == TRUE

\* P: Send.  RBox<T>: Send iff T: Send; &T: Send iff T: Sync;
\* &mut T: Send iff T: Send.
PtrSend(kind) == IF kind = "Ref" THEN UnitIsSync ELSE UnitIsSend
\* P: Sync.  RBox<T>, &T, &mut T: Sync iff T: Sync.
PtrSync(kind) == UnitIsSync

\* Variant of DynTrait_Send: the interface is not consulted.
DynTrait_Send_PointerOnly(d) == PtrSend(d.object.kind)

\* unsafe impl Send for DynTrait where P: Send, I: Send = True
DynTrait_Send(d) == PtrSend(d.object.kind) /\ d.iface.Send
\* unsafe impl Sync for DynTrait where P: Sync, I: Sync = True
DynTrait_Sync(d) == PtrSync(d.object.kind) /\ d.iface.Sync

\* One container of any pointer type and interface.
InitTy ==
    /\ layout = "mode_major"
    /\ last = NoResult
    /\ \E kind \in PtrKinds, I \in Ifaces :
          /\ dyns = <<[from_ptr_with(layout, "from_ptr", "bin", "A", kind, 1)
                          EXCEPT !.iface = I]>>
          /\ objs = <<NewObj("A", 0, IF kind = "RBox" THEN "box" ELSE "stack")>>

\* Whether the container may be sent to / shared with another thread.
SendSync(i) ==
    /\ i \in Slots
    /\ Held(i)
    /\ last' = [op |-> "send_sync", c |-> i,
                send |-> DynTrait_Send(dyns[i]), sync |-> DynTrait_Sync(dyns[i])]
    /\ UNCHANGED <<dyns, objs, layout>>

NextTy ==
    \/ \E i \in 1..MaxOwn : SendSync(i)
    \/ \E i \in 1..MaxOwn : Reborrow(MaxOwn, i)
    \/ \E i \in 1..MaxOwn : ReborrowMut(MaxOwn, i)
    \/ \E i \in 1..MaxOwn : Clone(MaxOwn, i)
    \/ \E i \in 1..MaxOwn : Default(MaxOwn, i)
    \/ \E i \in 1..MaxOwn : Drop(i)

SpecTy == InitTy /\ [][NextTy]_vars

--------------------------------------------------------------------------
(* Capabilities forwarded through the dispatch table: iteration            *)
(* (impl Iterator / DoubleEndedIterator, skip_eager) and formatted writes  *)
(* (impl fmt::Write).  In this part the value of type "A" is a finite      *)
(* double-ended iterator, held as the sequence of the items it has yet to  *)
(* yield, and the value of type "B" is a text buffer, held as the sequence *)
(* of its characters.  The referent records carry history fields (orig,    *)
(* consumed, back, written) that the program does not store.               *)
\* The end of the range 0..=10 of the iteration doc test.
DocRangeEnd == 10
MaxWrites == 3
MaxCap == 2

Range(lo, hi) == [k \in 1..(hi - lo + 1) |-> lo + k - 1]
Reverse(q) == [k \in 1..Len(q) |-> q[Len(q) + 1 - k]]
\* Option<Item> as a sequence of at most one item.
None == <<>>
Some(x) == <<x>>

\* IteratorFns::next
iter_next(v) ==
    IF v = <<>> THEN [val |-> v, res |-> None]
    ELSE [val |-> Tail(v), res |-> Some(Head(v))]
\* IteratorFns::nth
iter_nth(v, nth) ==
    IF Len(v) > nth THEN [val |-> SubSeq(v, nth + 2, Len(v)), res |-> Some(v[nth + 1])]
    ELSE [val |-> <<>>, res |-> None]
\* IteratorFns::skip_eager
iter_skip_eager(v, n) ==
    IF n # 0 THEN [val |-> iter_nth(v, n - 1).val, res |-> None]
    ELSE [val |-> v, res |-> None]
\* DoubleEndedIteratorFns::next_back
back_iter_next_back(v) ==
    IF v = <<>> THEN [val |-> v, res |-> None]
    ELSE [val |-> SubSeq(v, 1, Len(v) - 1), res |-> Some(v[Len(v)])]
\* The table's fmt_write_str for a String: push_str, which cannot fail.
fmt_write_str(v, str) == [val |-> v \o str, res |-> "ROk"]

\* The wrapped iterator after a call that took items from its front.
AfterFront(o, r) ==
    [o EXCEPT !.val = r.val,
              !.consumed = @ \o SubSeq(o.val, 1, Len(o.val) - Len(r.val))]
\* The wrapped iterator after a call that took items from its back.
AfterBack(o, r) ==
    [o EXCEPT !.val = r.val,
              !.back = @ \o Reverse(SubSeq(o.val, Len(r.val) + 1, Len(o.val)))]

\* impl Iterator for DynTrait: next
Iterator_next(d, os) ==
    LET r == iter_next(os[d.object.addr].val)
    IN [os |-> [os EXCEPT ![d.object.addr] = AfterFront(@, r)], res |-> r.res]

\* Variant of DynTrait_skip_eager: n is handed to the table's nth.
DynTrait_skip_eager_CallsNth(d, os, n) ==
    LET r == iter_nth(os[d.object.addr].val, n)
    IN [os |-> [os EXCEPT ![d.object.addr] = AfterFront(@, r)], res |-> None]

\* DynTrait::skip_eager
DynTrait_skip_eager(d, os, n) ==
    LET r == iter_skip_eager(os[d.object.addr].val, n)
    IN [os |-> [os EXCEPT ![d.object.addr] = AfterFront(@, r)], res |-> r.res]

\* Variant of DoubleEndedIterator_next_back: the call goes to the table's
\* next.
DoubleEndedIterator_next_back_CallsNext(d, os) ==
    LET r == iter_next(os[d.object.addr].val)
    IN [os |-> [os EXCEPT ![d.object.addr] = AfterBack(@, r)], res |-> r.res]

\* impl DoubleEndedIterator for DynTrait: next_back
DoubleEndedIterator_next_back(d, os) ==
    LET r == back_iter_next_back(os[d.object.addr].val)
    IN [os |-> [os EXCEPT ![d.object.addr] = AfterBack(@, r)], res |-> r.res]

\* Variant of fmtWrite_write_str: Ok is returned without the call.
fmtWrite_write_str_NoCall(d, os, str) ==
    [os |-> [os EXCEPT ![d.object.addr].written = Append(@, str)], res |-> "Ok"]

\* impl fmt::Write for DynTrait: write_str
fmtWrite_write_str(d, os, str) ==
    LET r == fmt_write_str(os[d.object.addr].val, str)
    IN [os |-> [os EXCEPT ![d.object.addr].val = r.val,
                          ![d.object.addr].written = Append(@, str)],
        res |-> IF r.res = "ROk" THEN "Ok" ELSE "Err"]

IterInputs == {Range(0, DocRangeEnd), Range(3, 4), <<>>}
Strs == {<<"F", "o", "o">>, <<"B", "a", "r">>, <<"B", "a", "z">>}
BufInputs == {<<>>, <<"x">>}
SkipCounts == {0, 1, 2, 9}

IterObj(seq, kind) ==
    NewObj("A", seq, IF kind = "RBox" THEN "box" ELSE "stack")
        @@ [orig |-> seq, consumed |-> <<>>, back |-> <<>>]
BufObj(buf) == NewObj("B", buf, "stack") @@ [orig |-> buf, written |-> <<>>]

\* wrapped = DynTrait::from_any_value(iter, I) / from_any_ptr(&mut iter, I) /
\* from_any_ptr(&mut buffer, FmtWriteInterface)
InitCap ==
    /\ layout = "mode_major"
    /\ last = NoResult
    /\ \/ \E seq \in IterInputs, kind \in {"RBox", "RefMut"} :
             /\ dyns = <<from_ptr_with(layout, "from_any_ptr", "bin", "A", kind, 1)>>
             /\ objs = <<IterObj(seq, kind)>>
       \/ \E buf \in BufInputs :
             /\ dyns = <<from_ptr_with(layout, "from_any_ptr", "bin", "B", "RefMut", 1)>>
             /\ objs = <<BufObj(buf)>>

\* The receiver of a capability call that takes &mut self (P: DerefMut).
CanCall(i, ty) ==
    /\ i \in Slots
    /\ CanMut(i)
    /\ dyns[i].object.kind \in {"RBox", "RefMut"}
    /\ objs[dyns[i].object.addr].ty = ty

IterNext(i) ==
    /\ CanCall(i, "A")
    /\ \E r \in {Iterator_next(dyns[i], objs)} :
          /\ objs' = r.os
          /\ last' = [op |-> "next", c |-> i, res |-> r.res]
    /\ UNCHANGED <<dyns, layout>>

IterNextBack(i) ==
    /\ CanCall(i, "A")
    /\ \E r \in {DoubleEndedIterator_next_back(dyns[i], objs)} :
          /\ objs' = r.os
          /\ last' = [op |-> "next_back", c |-> i, res |-> r.res]
    /\ UNCHANGED <<dyns, layout>>

SkipEager(i, n) ==
    /\ CanCall(i, "A")
    /\ \E r \in {DynTrait_skip_eager(dyns[i], objs, n)} :
          /\ objs' = r.os
          /\ last' = [op |-> "skip_eager", c |-> i, n |-> n,
                      before |-> objs[dyns[i].object.addr].val]
    /\ UNCHANGED <<dyns, layout>>

WriteStr(i, str) ==
    /\ CanCall(i, "B")
    /\ Len(objs[dyns[i].object.addr].written) < MaxWrites
    /\ \E r \in {fmtWrite_write_str(dyns[i], objs, str)} :
          /\ objs' = r.os
          /\ last' = [op |-> "write_str", c |-> i, res |-> r.res]
    /\ UNCHANGED <<dyns, layout>>

\* DynTrait::sabi_object_address
sabi_object_address(d) == d.object.addr

ObjectAddress(i) ==
    /\ i \in Slots
    /\ CanShare(i)
    /\ last' = [op |-> "sabi_object_address", c |-> i,
                res |-> sabi_object_address(dyns[i])]
    /\ UNCHANGED <<dyns, objs, layout>>

NextCap ==
    \/ \E i \in 1..MaxCap : IterNext(i)
    \/ \E i \in 1..MaxCap : IterNextBack(i)
    \/ \E i \in 1..MaxCap, n \in SkipCounts : SkipEager(i, n)
    \/ \E i \in 1..MaxCap, str \in Strs : WriteStr(i, str)
    \/ \E i \in 1..MaxCap : ObjectAddress(i)
    \/ \E i \in 1..MaxCap : Reborrow(MaxCap, i)
    \/ \E i \in 1..MaxCap : ReborrowMut(MaxCap, i)
    \/ \E i \in 1..MaxCap : Drop(i)
    \/ \E op \in {"sabi_into_any_unerased", "sabi_as_any_unerased_mut"},
          i \in 1..MaxCap, ty \in Types : Unerase(op, i, "bin", ty)
    \/ \E i \in 1..MaxCap : IntoInner(i)

SpecCap == InitCap /\ [][NextCap]_vars

RECURSIVE Flatten(_)
Flatten(q) == IF q = <<>> THEN <<>> ELSE Head(q) \o Flatten(Tail(q))
Min(a, b) == IF a < b THEN a ELSE b

\* C17: under any interleaving of next and next_back the items taken from
\* the front, the items still to come and the items taken from the back (in
\* reverse) make up the original sequence, so nothing is yielded twice; a
\* call returns the item it took, and None only when nothing is left; for
\* 0..=10, five items from the front are 0,1,2,3,4 and the other six from the
\* back are 10,9,8,7,6,5.
C17_DoubleEndedIteration ==
    objs[1].ty = "A"
    => LET o == objs[1]
       IN /\ o.consumed \o o.val \o Reverse(o.back) = o.orig
          /\ last.op = "next"
             => IF last.res = None THEN o.val = <<>>
                ELSE last.res = Some(o.consumed[Len(o.consumed)])
          /\ last.op = "next_back"
             => IF last.res = None THEN o.val = <<>>
                ELSE last.res = Some(o.back[Len(o.back)])
          /\ (o.orig = Range(0, DocRangeEnd) /\ Len(o.consumed) = 5 /\ Len(o.back) = 6)
             => /\ o.consumed = <<0, 1, 2, 3, 4>>
                /\ o.back = <<10, 9, 8, 7, 6, 5>>
                /\ o.val = <<>>

C17_Witness ==
    /\ objs[1].ty = "A"
    /\ last.op = "next_back" /\ last.res = None
    /\ LastDyn.object.kind = "RBox"
    /\ objs[1].consumed = <<0, 1, 2, 3, 4>>
    /\ objs[1].back = <<10, 9, 8, 7, 6, 5>>

\* C18: every write_str succeeds and the buffer holds its previous content
\* followed by the written strings in call order, also after the container
\* is dropped; the buffer itself is never destroyed; "Foo", "Bar", "Baz"
\* written to an empty buffer give "FooBarBaz".
C18_WritesAppendInOrder ==
    objs[1].ty = "B"
    => LET o == objs[1]
       IN /\ o.val = o.orig \o Flatten(o.written)
          /\ last.op = "write_str" => last.res = "Ok"
          /\ Intact(o)
          /\ (o.orig = <<>> /\ o.written = << <<"F", "o", "o">>, <<"B", "a", "r">>,
                                              <<"B", "a", "z">> >>)
             => o.val = <<"F", "o", "o", "B", "a", "r", "B", "a", "z">>

C18_Witness ==
    /\ objs[1].ty = "B"
    /\ dyns[1].st = "dropped"
    /\ objs[1].orig = <<>>
    /\ objs[1].val = <<"F", "o", "o", "B", "a", "r", "B", "a", "z">>
    /\ Intact(objs[1])

\* C19: skip_eager(n) takes exactly min(n, remaining) items from the front
\* and yields none, and a next() that follows it returns the item that was
\* at position n before the skip, or None if there was none.
C19_SkipEagerConsumesN ==
    [][/\ last'.op = "skip_eager"
          => LET k == Min(last'.n, Len(last'.before))
             IN /\ objs'[1].val = SubSeq(last'.before, k + 1, Len(last'.before))
                /\ Len(objs'[1].consumed) = Len(objs[1].consumed) + k
                /\ objs'[1].consumed \o objs'[1].val \o Reverse(objs'[1].back)
                      = objs'[1].orig
       /\ (last.op = "skip_eager" /\ last'.op = "next")
          => last'.res = IF Len(last.before) > last.n
                         THEN Some(last.before[last.n + 1]) ELSE None]_vars

C19_Witness ==
    /\ last.op = "skip_eager"
    /\ last.n = 2
    /\ Len(last.before) >= 3
    /\ Len(objs[1].consumed) >= 4
    /\ objs[1].back # <<>>

\* C20: no step changes the address sabi_object_address reports for an
\* existing container (capability calls, reborrows, failed recoveries and
\* into_inner included), and a reborrow reports the address of the
\* container it was taken from.
C20_ObjectAddressStable ==
    [][/\ \A i \in Slots :
             sabi_object_address(dyns'[i]) = sabi_object_address(dyns[i])
       /\ \A i \in 1..Len(dyns') :
             sabi_object_address(dyns'[i]) = sabi_object_address(dyns'[1])
       /\ last'.op = "sabi_object_address"
          => last'.res = sabi_object_address(dyns'[1])]_vars

C20_Witness ==
    /\ last.op = "sabi_object_address"
    /\ last.c = 1
    /\ objs[1].ty = "A" /\ objs[1].consumed # <<>>
    /\ Len(dyns) = 2 /\ dyns[2].ctor = "reborrow_mut" /\ dyns[2].st = "dropped"
--------------------------------------------------------------------------
\* The operands of the last comparison.
LastA == dyns[last.a]
LastB == dyns[last.b]
SameKind == LastA.object.kind = LastB.object.kind

\* Wrapped values of incompatible types: the type check fails, or the
\* wrapped types or the components that erased them differ.
Incompatible(a, b) ==
    \/ ~sabi_is_same_type(a, b)
    \/ Obj(a).ty # Obj(b).ty
    \/ sabi_vtable(a).lib # sabi_vtable(b).lib

\* C29: eq(a, b) is true only if cmp(a, b) is Equal; partial_cmp(a, b) is
\* Some(cmp(a, b)); for wrapped values of incompatible types the table
\* addresses differ, cmp is never Equal and eq is false.
C29_EqCmpPartialCmpAgree ==
    /\ (last.op = "eq" /\ last.res /\ SameKind) => Ord_cmp(LastA, LastB) = 0
    /\ (last.op = "partial_cmp" /\ SameKind) => last.res = <<Ord_cmp(LastA, LastB)>>
    /\ (last.op = "cmp" /\ Incompatible(LastA, LastB)) =>
          /\ sabi_vtable_address(LastA) # sabi_vtable_address(LastB)
          /\ last.res # 0
          /\ ~PartialEq_eq(LastA, LastB).res
          /\ PartialOrd_partial_cmp(LastA, LastB) = <<last.res>>
    /\ (last.op = "eq" /\ Incompatible(LastA, LastB)) => ~last.res

\* Two containers over equal values of different types have been compared.
C29_Witness ==
    /\ last.op = "cmp" /\ last.a = 1 /\ last.b = 2
    /\ Obj(LastA).ty # Obj(LastB).ty
    /\ Obj(LastA).val = Obj(LastB).val
    /\ last.res # 0
--------------------------------------------------------------------------
\* C30: the borrowed flag never alters which table is used: for every
\* container, flagged or not, sabi_vtable_address is the address of the
\* table of the constructed container and sabi_vtable is that table; the
\* `vtable` field is that address plus the flag bits read back; the flag bits
\* are 0b0001 on what reborrow / reborrow_mut made (once, however deep the
\* reborrow) and on clones of it, and 0 on everything else; clearing the low
\* four bits changes no table address.
C30_FlagNeverAltersTable ==
    /\ \A i \in Slots :
          /\ sabi_vtable_address(dyns[i]) = dyns[1].vtable
          /\ sabi_vtable(dyns[i]) = sabi_vtable(dyns[1])
          /\ get_vtable(layout, sabi_vtable(dyns[i])) = sabi_vtable_address(dyns[i])
          /\ dyns[i].vtable = sabi_vtable_address(dyns[i]) + sabi_vtable_ptr_flags(dyns[i])
          /\ sabi_vtable_ptr_flags(dyns[i]) \in {0, PTR_FLAG_IS_BORROWED}
          /\ dyns[i].ctor \in Reborrows => Flagged(dyns[i])
          /\ Flagged(dyns[i]) => dyns[i].ctor \in Reborrows \cup {"clone"}
          /\ (dyns[i].ctor = "clone" /\ Flagged(dyns[i])) => dyns[i].object.kind = "Ref"
    /\ \A i \in Slots :
          /\ AndPtrMask(OrIsBorrowed(dyns[i].vtable)) = dyns[1].vtable
          /\ OrIsBorrowed(OrIsBorrowed(dyns[i].vtable)) = OrIsBorrowed(dyns[i].vtable)
    \* The addresses of the tables do not depend on the state: they are
    \* examined once, before anything is constructed.
    /\ dyns = <<>> => \A lay \in Layouts, k \in VTKeys :
          /\ AndPtrMask(get_vtable(lay, k)) = get_vtable(lay, k)
          /\ AndPtrFlags(get_vtable(lay, k)) = 0
          /\ AndPtrMask(OrIsBorrowed(get_vtable(lay, k))) = get_vtable(lay, k)
          /\ OrIsBorrowed(OrIsBorrowed(get_vtable(lay, k))) = OrIsBorrowed(get_vtable(lay, k))

\* A reborrow of a reborrow of a constructed container.
C30_Witness ==
    /\ Len(dyns) = 3
    /\ dyns[1].ctor \in Ctors
    /\ dyns[2].ctor = "reborrow_mut" /\ dyns[2].parent = 1
    /\ dyns[3].ctor = "reborrow" /\ dyns[3].parent = 2
    /\ dyns[3].vtable = dyns[1].vtable + PTR_FLAG_IS_BORROWED
    /\ dyns[3].vtable = dyns[2].vtable
--------------------------------------------------------------------------
(* Lifetime of the wrapped objects: construction, reborrows, clones,       *)
(* defaults, consuming recoveries, into_inner and drops, with the drop of  *)
(* the pointer a successful recovery handed to its caller.                 *)
MaxLife == 3

\* The caller of a successful sabi_into_* drops the pointer it received
\* (impl Drop for RBox when the pointer is an RBox; a reference has no
\* destructor).
ReleaseRecovered(i) ==
    /\ i \in Slots
    /\ dyns[i].st = "moved"
    /\ objs' = IF dyns[i].object.kind = "RBox"
               THEN [objs EXCEPT ![dyns[i].object.addr] = RBox_drop(@)]
               ELSE objs
    /\ dyns' = [dyns EXCEPT ![i].st = "released"]
    /\ last' = [op |-> "release", c |-> i]
    /\ UNCHANGED layout

\* One component builds the containers and calls the recoveries, and the
\* type and value wrapped are fixed; the recoveries still succeed and fail,
\* by candidate type and by constructor.
LifeLibs == {"bin"}
LifeTypes == {"A"}
LifeValues == {1}

NextLife ==
    \/ \E ctor \in Ctors, lib \in LifeLibs, ty \in LifeTypes, val \in LifeValues, kind \in CtorPtrKinds :
          Construct(ctor, lib, ty, val, kind)
    \/ \E i \in 1..MaxLife : Drop(i)
    \/ \E i \in 1..MaxLife : Reborrow(MaxLife, i)
    \/ \E i \in 1..MaxLife : ReborrowMut(MaxLife, i)
    \/ \E i \in 1..MaxLife : Clone(MaxLife, i)
    \/ \E i \in 1..MaxLife : Default(MaxLife, i)
    \/ \E op \in IntoOps, i \in 1..MaxLife, lib \in LifeLibs, ty \in Types :
          Unerase(op, i, lib, ty)
    \/ \E i \in 1..MaxLife : IntoInner(i)
    \/ \E i \in 1..MaxLife : ReleaseRecovered(i)

SpecLife == Init /\ [][NextLife]_vars
\* The containers whose pointer owns the object at an address.
Owners(a) == {i \in Slots : dyns[i].object.addr = a /\ dyns[i].object.kind = "RBox"}

\* C28: every wrapped object has its destructor run at most once and its
\* allocation freed at most once; a boxed object has exactly one owning
\* container and is destroyed (exactly once) exactly when that container was
\* dropped or the pointer a successful sabi_into_* handed out was dropped by
\* its caller; a successful sabi_into_* leaves the object intact in the
\* caller's hands and a failed one leaves it intact in the error; dropping
\* containers of reference kind, clones included, destroys nothing; and no
\* object is destroyed while a usable container refers to it.
C28_DestroyedExactlyOnce ==
    /\ \A a \in 1..Len(objs) :
          /\ objs[a].drops <= 1 /\ objs[a].frees <= 1
          /\ objs[a].drops = objs[a].frees
          /\ objs[a].owner = "stack" => Intact(objs[a]) /\ Owners(a) = {}
          /\ objs[a].owner = "box" =>
                /\ Cardinality(Owners(a)) = 1
                /\ \A i \in Owners(a) :
                      objs[a].drops = 1 <=> dyns[i].st \in {"dropped", "released"}
    /\ \A i \in Slots :
          /\ Held(i) => Intact(Obj(dyns[i]))
          /\ (dyns[i].st = "moved" /\ dyns[i].object.kind = "RBox") => Intact(Obj(dyns[i]))
    /\ last.op \in IntoOps =>
          /\ Intact(Obj(LastDyn))
          /\ LastDyn.st = IF last.ok THEN "moved" ELSE "inErr"

\* A boxed object has outlived a reborrow and a dropped clone of that
\* reborrow, was recovered, and was destroyed by the caller of the recovery.
C28_Witness ==
    /\ Len(dyns) = 3
    /\ dyns[2].ctor = "reborrow" /\ dyns[2].st = "dropped"
    /\ dyns[3].ctor = "clone" /\ dyns[3].object.kind = "Ref" /\ dyns[3].st = "dropped"
    /\ dyns[1].object.kind = "RBox" /\ dyns[1].st = "released"
    /\ last.op = "release"
    /\ Obj(dyns[1]).drops = 1 /\ Obj(dyns[1]).frees = 1
--------------------------------------------------------------------------
(* Prefix types (prefix_type.rs): layouts of a struct whose trailing       *)
(* fields may be absent from an instance built by an older component.      *)
MaxFields == 3

PrefixStructs == {"BoxVtable", "Module"}
PackageVersions == {"0.1.0", "0.2.0"}
DataVariants == {"PrefixType", "Struct", "Primitive"}

\* #[sabi(last_prefix_field)]: the number of fields every version has.
LastPrefixField(ty) == IF ty = "BoxVtable" THEN 2 ELSE 1

\* The TLField at an index of a struct: fields are only ever appended, so
\* a field is determined by the struct and its index.
TLField(ty, index) == [name |-> <<ty, "field", index>>, full_type |-> <<ty, "fn", index>>]

\* The TypeLayout a component that knows `n` fields of the struct emits.
TypeLayout(variant, ty, n, version) ==
    [full_type |-> ty, package |-> <<"package_of", ty>>, package_version |-> version,
     data |-> IF variant = "PrefixType"
              THEN [variant |-> variant, first_suffix_field |-> LastPrefixField(ty),
                    fields |-> [i \in 1..n |-> TLField(ty, i - 1)]]
              ELSE [variant |-> variant]]

PrefixLayouts ==
    {TypeLayout("PrefixType", ty, n, version) :
        ty \in PrefixStructs, n \in 1..MaxFields, version \in PackageVersions}
    \ {TypeLayout("PrefixType", "BoxVtable", 1, version) : version \in PackageVersions}
OtherLayouts ==
    {TypeLayout(variant, ty, 0, "0.1.0") :
        variant \in DataVariants \ {"PrefixType"}, ty \in PrefixStructs}
TypeLayouts == PrefixLayouts \cup OtherLayouts

\* Variant of PrefixTypeMetadata_new: the prefix is taken to be all fields.
PrefixTypeMetadata_new_CountsAllFields(l) ==
    IF l.data.variant = "PrefixType"
    THEN [panic |-> "none", prefix_field_count |-> Len(l.data.fields),
          fields |-> l.data.fields, layout |-> l]
    ELSE [panic |-> "non_prefix_type", full_type |-> l.full_type,
          discriminant |-> l.data.variant, package |-> l.package]

\* Variant of PrefixTypeMetadata_new: a layout of another kind yields an
\* empty prefix instead of a panic.
PrefixTypeMetadata_new_NoPanic(l) ==
    IF l.data.variant = "PrefixType"
    THEN [panic |-> "none", prefix_field_count |-> l.data.first_suffix_field,
          fields |-> l.data.fields, layout |-> l]
    ELSE [panic |-> "none", prefix_field_count |-> 0, fields |-> <<>>, layout |-> l]

\* PrefixTypeMetadata::new
PrefixTypeMetadata_new(l) ==
    IF l.data.variant = "PrefixType"
    THEN [panic |-> "none", prefix_field_count |-> l.data.first_suffix_field,
          fields |-> l.data.fields, layout |-> l]
    ELSE [panic |-> "non_prefix_type", full_type |-> l.full_type,
          discriminant |-> l.data.variant, package |-> l.package]

\* Variant of PrefixTypeMetadata_max: ties go to the argument.
PrefixTypeMetadata_max_TiesToOther(self, other) ==
    IF Len(self.fields) <= Len(other.fields) THEN other ELSE self

\* PrefixTypeMetadata::max
PrefixTypeMetadata_max(self, other) ==
    IF Len(self.fields) < Len(other.fields) THEN other ELSE self

\* PrefixTypeMetadata::min_max
PrefixTypeMetadata_min_max(self, other) ==
    IF Len(self.fields) < Len(other.fields) THEN <<self, other>> ELSE <<other, self>>

\* Variant of panic_on_missing_field_val: the field is looked up in the
\* actual layout.
panic_on_missing_field_val_ActualField(field_index, expected, actual) ==
    LET e == PrefixTypeMetadata_new(expected)
        a == PrefixTypeMetadata_new(actual)
    IN IF e.panic # "none" THEN e
       ELSE IF a.panic # "none" THEN a
       ELSE IF field_index >= Len(a.fields)
       THEN [panic |-> "index_out_of_bounds", index |-> field_index, len |-> Len(a.fields)]
       ELSE [panic |-> "missing_field",
             index |-> field_index,
             field_named |-> a.fields[field_index + 1].name,
             field_type |-> a.fields[field_index + 1].full_type,
             struct_type |-> e.layout.full_type,
             package |-> e.layout.package,
             expected_package_version |-> e.layout.package_version,
             expected_field_count |-> Len(e.fields),
             actual_package_version |-> a.layout.package_version,
             actual_field_count |-> Len(a.fields)]

\* panic_on_missing_field_val: every outcome is a panic; which one is the
\* `panic` field of the result.  Both metadata are built first, then the
\* expected field list is indexed (a bounds-checked slice index).
panic_on_missing_field_val(field_index, expected, actual) ==
    LET e == PrefixTypeMetadata_new(expected)
        a == PrefixTypeMetadata_new(actual)
    IN IF e.panic # "none" THEN e
       ELSE IF a.panic # "none" THEN a
       ELSE IF field_index >= Len(e.fields)
       THEN [panic |-> "index_out_of_bounds", index |-> field_index, len |-> Len(e.fields)]
       ELSE [panic |-> "missing_field",
             index |-> field_index,
             field_named |-> e.fields[field_index + 1].name,
             field_type |-> e.fields[field_index + 1].full_type,
             struct_type |-> e.layout.full_type,
             package |-> e.layout.package,
             expected_package_version |-> e.layout.package_version,
             expected_field_count |-> Len(e.fields),
             actual_package_version |-> a.layout.package_version,
             actual_field_count |-> Len(a.fields)]

\* Variant of panic_on_missing_field_ty: the two layouts are passed in the
\* other order.
panic_on_missing_field_ty_Swapped(t_layout, field_index, actual_layout) ==
    panic_on_missing_field_val(field_index, actual_layout, t_layout)

\* panic_on_missing_field_ty::<T>, T::layout() being `t_layout`.
panic_on_missing_field_ty(t_layout, field_index, actual_layout) ==
    panic_on_missing_field_val(field_index, t_layout, actual_layout)
\* An instance of a prefix type as the component whose layout is `l` builds
\* it: the layout, the field count actually stored, and the fields.
Instance(l) ==
    [layout |-> l, field_count |-> Len(l.data.fields),
     mem |-> [i \in 1..Len(l.data.fields) |-> <<"value", i - 1>>]]

\* The field count encoded in the instance held.
field_count(inst) == inst.field_count

\* The accessor of field `index` that a component whose layout of the struct
\* is `t_layout` calls on an instance: the stored count is checked before
\* the field is read.
get_field(inst, t_layout, index) ==
    IF index < inst.field_count
    THEN [panic |-> "none", field |-> inst.mem[index + 1]]
    ELSE panic_on_missing_field_ty(t_layout, index, inst.layout)

\* Each call is made on the instance as built: the calls are pure, so a
\* behaviour is one call.
InitPrefix ==
    /\ dyns = <<>>
    /\ layout = "mode_major"
    /\ last = NoResult
    /\ \E l \in PrefixLayouts : objs = <<Instance(l)>>

\* A component that declares `t_layout` for the struct accesses a field it
\* declares on the instance it holds.
GetField(i, t_layout, index) ==
    /\ last = NoResult
    /\ i \in 1..Len(objs)
    /\ t_layout.full_type = objs[i].layout.full_type
    /\ index < Len(t_layout.data.fields)
    /\ last' = [op |-> "get_field", c |-> i, t_layout |-> t_layout, index |-> index,
                res |-> get_field(objs[i], t_layout, index)]
    /\ UNCHANGED <<dyns, objs, layout>>

FieldCount(i, t_layout) ==
    /\ last = NoResult
    /\ i \in 1..Len(objs)
    /\ t_layout.full_type = objs[i].layout.full_type
    /\ last' = [op |-> "field_count", c |-> i, t_layout |-> t_layout,
                res |-> field_count(objs[i])]
    /\ UNCHANGED <<dyns, objs, layout>>

\* PrefixTypeMetadata::new(layout), and PrefixTypeTrait::metadata() of a
\* type whose layout() is `l`.
MetadataNew(l) ==
    /\ last = NoResult
    /\ last' = [op |-> "new", arg |-> l, res |-> PrefixTypeMetadata_new(l)]
    /\ UNCHANGED <<dyns, objs, layout>>

\* a.max(b) for the metadata of two layouts of one struct.
Max(la, lb) ==
    /\ last = NoResult
    /\ la.full_type = lb.full_type
    /\ \E a \in {PrefixTypeMetadata_new(la)}, b \in {PrefixTypeMetadata_new(lb)} :
          last' = [op |-> "max", a |-> a, b |-> b, res |-> PrefixTypeMetadata_max(a, b)]
    /\ UNCHANGED <<dyns, objs, layout>>

\* a.min_max(b)
MinMax(la, lb) ==
    /\ last = NoResult
    /\ la.full_type = lb.full_type
    /\ \E a \in {PrefixTypeMetadata_new(la)}, b \in {PrefixTypeMetadata_new(lb)} :
          last' = [op |-> "min_max", a |-> a, b |-> b,
                   res |-> PrefixTypeMetadata_min_max(a, b)]
    /\ UNCHANGED <<dyns, objs, layout>>

\* The public function called with any index and any two layouts.
PanicOnMissingFieldVal(field_index, expected, actual) ==
    /\ last = NoResult
    /\ last' = [op |-> "panic_on_missing_field_val", index |-> field_index,
                expected |-> expected, actual |-> actual,
                res |-> panic_on_missing_field_val(field_index, expected, actual)]
    /\ UNCHANGED <<dyns, objs, layout>>

NextPrefix ==
    \/ \E t_layout \in PrefixLayouts, index \in 0..(MaxFields - 1) : GetField(1, t_layout, index)
    \/ \E t_layout \in PrefixLayouts : FieldCount(1, t_layout)
    \/ \E l \in TypeLayouts : MetadataNew(l)
    \/ \E la \in PrefixLayouts, lb \in PrefixLayouts : Max(la, lb)
    \/ \E la \in PrefixLayouts, lb \in PrefixLayouts : MinMax(la, lb)
    \/ \E field_index \in 0..MaxFields, expected \in TypeLayouts, actual \in TypeLayouts :
          PanicOnMissingFieldVal(field_index, expected, actual)

SpecPrefix == InitPrefix /\ [][NextPrefix]_vars
--------------------------------------------------------------------------
\* The missing-field diagnostic for field `index` of the struct of layout
\* `e`, found absent from an instance of layout `a`.
MissingFieldDiagnostic(index, e, a) ==
    [panic |-> "missing_field",
     index |-> index,
     field_named |-> TLField(e.full_type, index).name,
     field_type |-> TLField(e.full_type, index).full_type,
     struct_type |-> e.full_type,
     package |-> e.package,
     expected_package_version |-> e.package_version,
     expected_field_count |-> Len(e.data.fields),
     actual_package_version |-> a.package_version,
     actual_field_count |-> Len(a.data.fields)]

\* C21: the access of field `index` returns the field iff index is smaller
\* than the field count stored in the instance, and then it is the field the
\* instance holds at that index; for an index at or past the stored count it
\* panics with the missing-field diagnostic and reads nothing.
C21_AccessChecksStoredCount ==
    last.op = "get_field"
    => LET inst == objs[last.c]
       IN /\ last.res.panic = "none" <=> last.index < inst.field_count
          /\ last.res.panic = "none"
             => /\ last.index + 1 \in DOMAIN inst.mem
                /\ last.res.field = <<"value", last.index>>
          /\ last.res.panic # "none"
             => /\ last.res = MissingFieldDiagnostic(last.index, last.t_layout, inst.layout)
                /\ "field" \notin DOMAIN last.res

\* The last field of the newest layout is accessed on an instance that an
\* older component built without it.
C21_Witness ==
    /\ last.op = "get_field"
    /\ last.index = MaxFields - 1
    /\ objs[last.c].field_count = MaxFields - 1
    /\ last.res.panic = "missing_field"
    /\ last.res.actual_field_count < last.res.expected_field_count

\* C22: the field count reported for an instance is the number of fields of
\* the layout it was built from, however many the caller's layout declares;
\* every access of an index below prefix_field_count succeeds whichever
\* version built the instance; prefix_field_count is the same for all layouts
\* of one struct.
C22_PrefixAlwaysPresent ==
    /\ last.op = "field_count"
       => /\ last.res = Len(objs[last.c].layout.data.fields)
          /\ last.res >= PrefixTypeMetadata_new(last.t_layout).prefix_field_count
    /\ last.op = "get_field"
       => (last.index < PrefixTypeMetadata_new(last.t_layout).prefix_field_count
           => last.res.panic = "none")
    /\ \A la \in PrefixLayouts, lb \in PrefixLayouts :
          la.full_type = lb.full_type
          => PrefixTypeMetadata_new(la).prefix_field_count
             = PrefixTypeMetadata_new(lb).prefix_field_count

\* A caller that declares more fields reads the last prefix field of an
\* instance that has the prefix only.
C22_Witness ==
    /\ last.op = "get_field"
    /\ Len(last.t_layout.data.fields) > objs[last.c].field_count
    /\ objs[last.c].field_count = PrefixTypeMetadata_new(last.t_layout).prefix_field_count
    /\ last.index = objs[last.c].field_count - 1
    /\ last.t_layout.package_version # objs[last.c].layout.package_version
    /\ last.res.panic = "none"

\* C23: a.max(b) is the argument with more fields, a when the counts are
\* equal; a.min_max(b) is <<b, a>> or <<a, b>> with the first component
\* having no more fields than the second; the field count of max and of the
\* second component of min_max does not depend on the argument order; the
\* results are a and b themselves, unchanged.
C23_MaxMinMax ==
    /\ last.op = "max"
       => /\ last.res \in {last.a, last.b}
          /\ Len(last.res.fields) >= Len(last.a.fields)
          /\ Len(last.res.fields) >= Len(last.b.fields)
          /\ Len(last.a.fields) = Len(last.b.fields) => last.res = last.a
          /\ Len(last.res.fields) = Len(PrefixTypeMetadata_max(last.b, last.a).fields)
    /\ last.op = "min_max"
       => /\ last.res \in {<<last.a, last.b>>, <<last.b, last.a>>}
          /\ Len(last.res[1].fields) <= Len(last.res[2].fields)
          /\ Len(last.res[2].fields)
             = Len(PrefixTypeMetadata_min_max(last.b, last.a)[2].fields)
          /\ last.res[2] = PrefixTypeMetadata_max(last.a, last.b)

\* max of two metadata with equal field counts from different versions.
C23_Witness ==
    /\ last.op = "max"
    /\ last.a # last.b
    /\ Len(last.a.fields) = Len(last.b.fields)
    /\ last.res = last.a

\* C24: new(layout) of a prefix-type layout returns metadata with the
\* layout's first_suffix_field as prefix_field_count, the layout's field
\* list as fields and the layout itself as layout; for a layout of any other
\* data variant it panics.
C24_NewReadsPrefixLayout ==
    last.op = "new"
    => IF last.arg.data.variant = "PrefixType"
       THEN /\ last.res.panic = "none"
            /\ last.res.prefix_field_count = last.arg.data.first_suffix_field
            /\ last.res.fields = last.arg.data.fields
            /\ last.res.layout = last.arg
       ELSE /\ last.res.panic = "non_prefix_type"
            /\ DOMAIN last.res = {"panic", "full_type", "discriminant", "package"}

\* new() was called with the layout of a plain struct.
C24_Witness ==
    /\ last.op = "new"
    /\ last.arg.data.variant = "Struct"
    /\ last.res.panic = "non_prefix_type"
    /\ last.res.discriminant = "Struct"

\* C27 as stated: every call of panic_on_missing_field_val fails with the
\* missing-field diagnostic.
C27_AlwaysMissingFieldDiagnostic ==
    last.op = "panic_on_missing_field_val"
    => /\ last.res.panic = "missing_field"
       /\ last.res.index = last.index
       /\ last.res.field_named = TLField(last.expected.full_type, last.index).name
       /\ last.res.struct_type = last.expected.full_type

\* C27: panic_on_missing_field_val never returns; called with two
\* prefix-type layouts and an index of a field of the expected layout it
\* panics with the missing-field diagnostic; with a layout of another kind
\* it panics in PrefixTypeMetadata::new, and with an index at or past the
\* expected field count it panics on the slice index.
C27_DiagnosticForDeclaredFields ==
    last.op = "panic_on_missing_field_val"
    => /\ last.res.panic # "none"
       /\ IF last.expected.data.variant # "PrefixType"
          THEN last.res = PrefixTypeMetadata_new(last.expected)
          ELSE IF last.actual.data.variant # "PrefixType"
          THEN last.res = PrefixTypeMetadata_new(last.actual)
          ELSE IF last.index >= Len(last.expected.data.fields)
          THEN last.res.panic = "index_out_of_bounds"
          ELSE last.res = MissingFieldDiagnostic(last.index, last.expected, last.actual)

\* The diagnostic for a field the expected layout has and the actual one
\* lacks.
C27_Witness ==
    /\ last.op = "panic_on_missing_field_val"
    /\ last.res.panic = "missing_field"
    /\ last.res.index = MaxFields - 1
    /\ last.res.actual_field_count = MaxFields - 1
    /\ last.res.expected_package_version # last.res.actual_package_version
--------------------------------------------------------------------------
(* RBox (boxed.rs): the allocation of a box is released through the        *)
(* destructor of the component that made it.  `dyns` holds the handles     *)
(* (an RBox, the Box that into_box returned, or the value that into_inner  *)
(* returned), `objs` the allocations and the stack slots of unboxed values.*)
MaxBox == 2

\* VTableGetter::LIB_VTABLE of a component, and the UTypeId its type_id
\* constructor returns: one per component.
LIB_VTABLE(lib) == lib
type_id(vtable) == <<"RBox<()>", vtable>>

\* The value boxed in the examples of into_box and into_inner.
BoxValues == {200}

Handle(kind, data, vtable, value) ==
    [kind |-> kind, data |-> data, vtable |-> vtable, value |-> value, st |-> "live"]

\* What a handle refers to holds the value `value` (the index of the RBox
\* the value was first put in).
Holding(o, value) == o @@ [value |-> value]

InitBox ==
    /\ dyns = <<>>
    /\ objs = <<>>
    /\ last = NoResult
    /\ layout = "mode_major"

RBoxes == {i \in Slots : dyns[i].kind = "RBox"}
LiveRBox(i) == i \in RBoxes /\ dyns[i].st = "live"

\* RBox::new / RBox::from_box, called in component `lib`.
RBox_new(lib, ty, val) ==
    /\ Cardinality(RBoxes) < MaxBox
    /\ objs' = Append(objs, Holding(NewObj(ty, val, "box"), Len(dyns) + 1))
    /\ dyns' = Append(dyns, Handle("RBox", Len(objs) + 1, LIB_VTABLE(lib), Len(dyns) + 1))
    /\ last' = [op |-> "new", c |-> Len(dyns) + 1]
    /\ UNCHANGED layout

\* impl Drop for RBox: destructor(data, CallReferentDrop::Yes, Deallocate::Yes)
RBox_Drop(i) ==
    /\ LiveRBox(i)
    /\ objs' = [objs EXCEPT ![dyns[i].data] = RBox_drop(@)]
    /\ dyns' = [dyns EXCEPT ![i].st = "dropped"]
    /\ last' = [op |-> "drop", c |-> i]
    /\ UNCHANGED layout

\* The destructor of the box's table called with any two flags on a box
\* wrapped in ManuallyDrop.
DestroyBox(i, call_drop, dealloc) ==
    /\ LiveRBox(i)
    /\ objs' = [objs EXCEPT ![dyns[i].data] = destroy_box(@, call_drop, dealloc)]
    /\ dyns' = [dyns EXCEPT ![i].st = "raw"]
    /\ last' = [op |-> "destroy_box", c |-> i, call_drop |-> call_drop, dealloc |-> dealloc]
    /\ UNCHANGED layout

\* OwnedPointer::drop_allocation
drop_allocation(o) == destroy_box(o, FALSE, TRUE)

\* Variant of RBox_into_inner_objs: the box is dropped after the value was
\* read out of it.
RBox_into_inner_objs_DropsBox(d, os) ==
    Append([os EXCEPT ![d.data] = RBox_drop(@)],
           Holding(NewObj(os[d.data].ty, os[d.data].val, "stack"), d.value))

\* RBox::into_inner: the value is read out, then the allocation is released
\* without running the destructor.
RBox_into_inner_objs(d, os) ==
    Append([os EXCEPT ![d.data] = drop_allocation(@)],
           Holding(NewObj(os[d.data].ty, os[d.data].val, "stack"), d.value))

RBox_into_inner(i) ==
    /\ LiveRBox(i)
    /\ objs' = RBox_into_inner_objs(dyns[i], objs)
    /\ dyns' = Append([dyns EXCEPT ![i].st = "moved"],
                      Handle("Value", Len(objs) + 1, dyns[i].vtable, dyns[i].value))
    /\ last' = [op |-> "into_inner", c |-> i, ret |-> Len(dyns) + 1]
    /\ UNCHANGED layout

\* RBox::into_box called in component `lib`: the allocation is reused when
\* the box's table is this component's (or has its type_id); otherwise the
\* value is moved to a new Box and the old allocation is released by the
\* destructor of the table of the box, without running the destructor of
\* the value.
RBox_into_box_objs(d, lib, os) ==
    IF d.vtable = LIB_VTABLE(lib) \/ type_id(d.vtable) = type_id(LIB_VTABLE(lib))
    THEN os
    ELSE Append([os EXCEPT ![d.data] = destroy_box(@, FALSE, TRUE)],
                Holding(NewObj(os[d.data].ty, os[d.data].val, "box"), d.value))

RBox_into_box(i, lib) ==
    /\ LiveRBox(i)
    /\ objs' = RBox_into_box_objs(dyns[i], lib, objs)
    /\ dyns' = Append([dyns EXCEPT ![i].st = "moved"],
                      Handle("Box", IF Len(objs') = Len(objs) THEN dyns[i].data ELSE Len(objs'),
                             LIB_VTABLE(lib), dyns[i].value))
    /\ last' = [op |-> "into_box", c |-> i, lib |-> lib, ret |-> Len(dyns) + 1]
    /\ UNCHANGED layout

\* The caller drops the Box or the value it received: the destructor of the
\* value runs, and a Box releases its allocation.
DropReturned(i) ==
    /\ i \in Slots \ RBoxes
    /\ dyns[i].st = "live"
    /\ objs' = [objs EXCEPT ![dyns[i].data] = destroy_box(@, TRUE, dyns[i].kind = "Box")]
    /\ dyns' = [dyns EXCEPT ![i].st = "dropped"]
    /\ last' = [op |-> "drop_returned", c |-> i]
    /\ UNCHANGED layout

\* What a handle refers to.
Referred(i) == objs[dyns[i].data]

NextBox ==
    \/ \E lib \in Libs, val \in BoxValues : RBox_new(lib, "A", val)
    \/ \E i \in 1..(2 * MaxBox) : RBox_Drop(i)
    \/ \E i \in 1..(2 * MaxBox), call_drop \in BOOLEAN, dealloc \in BOOLEAN :
          DestroyBox(i, call_drop, dealloc)
    \/ \E i \in 1..(2 * MaxBox) : RBox_into_inner(i)
    \/ \E i \in 1..(2 * MaxBox), lib \in Libs : RBox_into_box(i, lib)
    \/ \E i \in 1..(2 * MaxBox) : DropReturned(i)

SpecBox == InitBox /\ [][NextBox]_vars
--------------------------------------------------------------------------
\* The allocations and stack slots that have held a value, and the number
\* of times its destructor ran.
HeldIn(value) == {a \in 1..Len(objs) : objs[a].value = value}
RECURSIVE SumDrops(_)
SumDrops(S) ==
    IF S = {} THEN 0
    ELSE LET a == CHOOSE x \in S : TRUE IN objs[a].drops + SumDrops(S \ {a})
\* Every handle to the value was dropped or consumed by the RBox functions.
Settled(value) ==
    \A i \in Slots : dyns[i].value = value => dyns[i].st \in {"dropped", "moved"}
FlagLog(call_drop, dealloc) ==
    (IF call_drop THEN <<"drop_in_place">> ELSE <<>>) \o (IF dealloc THEN <<"dealloc">> ELSE <<>>)

\* C25: the destructor of a box runs the destructor of the value iff
\* call_drop is Yes and releases the allocation iff dealloc is Yes, the
\* destructor first; dropping an RBox does both; into_inner returns the
\* value with the allocation released and the destructor not run; into_box
\* on a box of another component moves the value to a new Box and releases
\* the old allocation without running the destructor, and on a box of the
\* calling component reuses the allocation; no value has its destructor run
\* twice and no allocation is released twice, and once every handle is gone
\* the destructor ran exactly once and every allocation was released
\* exactly once.
C25_BoxDestroyedOnce ==
    /\ \A a \in 1..Len(objs) :
          /\ objs[a].drops <= 1 /\ objs[a].frees <= 1
          /\ objs[a].log \in {FlagLog(c, d) : c \in BOOLEAN, d \in BOOLEAN}
          /\ objs[a].owner = "stack" => objs[a].frees = 0
    /\ \A v \in RBoxes :
          /\ SumDrops(HeldIn(v)) <= 1
          /\ Settled(v)
             => /\ SumDrops(HeldIn(v)) = 1
                /\ \A a \in HeldIn(v) : objs[a].owner = "box" => objs[a].frees = 1
    /\ last.op = "destroy_box"
       => objs[dyns[last.c].data].log = FlagLog(last.call_drop, last.dealloc)
    /\ last.op = "drop"
       => objs[dyns[last.c].data].log = FlagLog(TRUE, TRUE)
    /\ last.op = "into_inner"
       => /\ objs[dyns[last.c].data].log = FlagLog(FALSE, TRUE)
          /\ dyns[last.ret].kind = "Value"
          /\ Intact(Referred(last.ret))
          /\ Referred(last.ret).val = Referred(last.c).val
    /\ last.op = "into_box"
       => /\ dyns[last.ret].kind = "Box"
          /\ Intact(Referred(last.ret))
          /\ Referred(last.ret).val = Referred(last.c).val
          /\ Referred(last.ret).owner = "box"
          /\ IF dyns[last.c].vtable = LIB_VTABLE(last.lib)
             THEN dyns[last.ret].data = dyns[last.c].data
             ELSE /\ dyns[last.ret].data # dyns[last.c].data
                  /\ Referred(last.c).log = FlagLog(FALSE, TRUE)

\* A box made by one component was turned into a Box by the other, and
\* that Box was dropped.
C25_Witness ==
    /\ last.op = "drop_returned"
    /\ dyns[last.c].kind = "Box"
    /\ dyns[last.c].vtable # dyns[dyns[last.c].value].vtable
    /\ dyns[last.c].data # dyns[dyns[last.c].value].data
    /\ Settled(dyns[last.c].value)
    /\ Referred(last.c).log = FlagLog(TRUE, TRUE)
    /\ Referred(dyns[last.c].value).log = FlagLog(FALSE, TRUE)
--------------------------------------------------------------------------
(* RHashMap (map.rs): every method forwards to a function of the map's     *)
(* table, which operates on the erased std HashMap.  `objs[1]` is the      *)
(* erased map, kept as the sequence of its entries <<key, value>> in       *)
(* iteration order.                                                        *)
MaxKeys == 3

MapKeys == 1..MaxKeys
MapValues == {"a", "b"}

\* The functions of the table (extern_fns): the operations of HashMap.
KeyIndex(map, key) == {i \in 1..Len(map) : map[i][1] = key}
WithoutKey(map, key) == SelectSeq(map, LAMBDA e : e[1] # key)
ErasedMap_insert_elem(map, key, value) ==
    IF KeyIndex(map, key) = {}
    THEN [map |-> Append(map, <<key, value>>), ret |-> None]
    ELSE LET i == CHOOSE i \in KeyIndex(map, key) : TRUE
         IN [map |-> [map EXCEPT ![i] = <<key, value>>], ret |-> Some(map[i][2])]
ErasedMap_remove_entry(map, key) ==
    IF KeyIndex(map, key) = {}
    THEN [map |-> map, ret |-> None]
    ELSE LET i == CHOOSE i \in KeyIndex(map, key) : TRUE
         IN [map |-> WithoutKey(map, key), ret |-> Some(map[i])]
ErasedMap_clear_map(map) == <<>>
ErasedMap_len(map) == Len(map)
\* The Drain iterator borrows the map exclusively; the entries it yields
\* and the map it leaves behind.
ErasedMap_drain(map) == [map |-> <<>>, ret |-> map]

\* RHashMap::insert
RHashMap_insert(map, key, value) == ErasedMap_insert_elem(map, key, value)

\* RHashMap::remove_entry
RHashMap_remove_entry(map, key) == ErasedMap_remove_entry(map, key)

\* RHashMap::remove: self.remove_entry(query).map(|x| x.1)
RHashMap_remove(map, key) ==
    LET r == RHashMap_remove_entry(map, key)
    IN [map |-> r.map, ret |-> IF r.ret = None THEN None ELSE Some(r.ret[1][2])]

\* RHashMap::clear
RHashMap_clear(map) == ErasedMap_clear_map(map)

\* RHashMap::len
RHashMap_len(map) == ErasedMap_len(map)

\* Variant of RHashMap_is_empty: a map with one entry counts as empty.
RHashMap_is_empty_OffByOne(map) == RHashMap_len(map) <= 1

\* RHashMap::is_empty
RHashMap_is_empty(map) == RHashMap_len(map) = 0

\* RHashMap::drain
RHashMap_drain(map) == ErasedMap_drain(map)

\* RHashMap::new()
InitMap ==
    /\ dyns = <<>>
    /\ objs = << <<>> >>
    /\ last = NoResult
    /\ layout = "mode_major"

MapCall(op, key, r) ==
    /\ objs' = <<r.map>>
    /\ last' = [op |-> op, key |-> key, ret |-> r.ret]
    /\ UNCHANGED <<dyns, layout>>

Insert(key, value) ==
    /\ objs' = <<RHashMap_insert(objs[1], key, value).map>>
    /\ last' = [op |-> "insert", key |-> key, value |-> value,
                ret |-> RHashMap_insert(objs[1], key, value).ret]
    /\ UNCHANGED <<dyns, layout>>
Remove(key) == MapCall("remove", key, RHashMap_remove(objs[1], key))
RemoveEntry(key) == MapCall("remove_entry", key, RHashMap_remove_entry(objs[1], key))
Clear == MapCall("clear", 0, [map |-> RHashMap_clear(objs[1]), ret |-> None])
Drain == MapCall("drain", 0, RHashMap_drain(objs[1]))
MapLen == MapCall("len", 0, [map |-> objs[1], ret |-> RHashMap_len(objs[1])])
IsEmpty == MapCall("is_empty", 0, [map |-> objs[1], ret |-> RHashMap_is_empty(objs[1])])

NextMap ==
    \/ \E key \in MapKeys, value \in MapValues : Insert(key, value)
    \/ \E key \in MapKeys : Remove(key)
    \/ \E key \in MapKeys : RemoveEntry(key)
    \/ Clear
    \/ Drain
    \/ MapLen
    \/ IsEmpty

SpecMap == InitMap /\ [][NextMap]_vars

\* The reference map: the function from the keys present to their values.
RefMap(map) ==
    [key \in {map[i][1] : i \in 1..Len(map)} |->
        map[CHOOSE i \in 1..Len(map) : map[i][1] = key][2]]
RefGet(ref, key) == IF key \in DOMAIN ref THEN Some(ref[key]) ELSE None
RefInsert(ref, key, value) ==
    [k \in DOMAIN ref \cup {key} |-> IF k = key THEN value ELSE ref[k]]
RefRemove(ref, key) == [k \in DOMAIN ref \ {key} |-> ref[k]]
Entries(seq) == {seq[i] : i \in 1..Len(seq)}
RefEntries(ref) == {<<k, ref[k]>> : k \in DOMAIN ref}

====
